---- MODULE Spec2Model ----
(***************************************************************************)
(* Litechat server: the connection registry (clients map), the delivery    *)
(* helpers sendToUser / broadcast / sendToGroup, the write handlers that   *)
(* call them, the in-memory store (MemStorage) behind them, and the two    *)
(* cleanup timers that retire old messages and expired statuses.           *)
(***************************************************************************)
EXTENDS Integers, Sequences, FiniteSets, TLC

\* ------------------------------------------------------------------ bounds
MaxConn == 2    \* WebSocket connections accepted by the server
MaxUser == 2    \* identities 1..MaxUser, all of them registered users
MaxReauth == 1  \* registry listings beyond the first of each connection
MaxReq == 2     \* HTTP write requests handled in one run
MaxGroup == 1   \* group ids a chat key or a request path may name
MaxSender == 1  \* sender and viewer ids a request body may carry
MaxStatus == 1  \* status ids a request path may name
MaxInflight == 1  \* handlers suspended at an await at one time
MaxNow == 12    \* days the clock runs
MaxKeyId == 12  \* ids a chat key is built from, 0..MaxKeyId
MaxNewUser == 2   \* emails and usernames not stored at the start
MaxSocket == 4    \* WebSockets the client creates

Conns == 1..MaxConn
UserIds == 1..MaxUser
Reqs == 1..MaxReq

\* time is counted in days
TenDays == 10   \* tenDaysAgo.setDate(getDate() - 10)
ThreeDays == 3  \* expiresAt.setDate(getDate() + 3)

\* undefined and NaN, as numbers no identity or id takes
None == 0 - 2
NaN == 0 - 1

VARIABLES
    clients,      \* Map<number, WebSocketClient[]> in insertion order
    wsUserId,     \* ws.userId of every connection
    readyState,   \* transport state of every connection
    lastFrame,    \* type of the frame the message handler last ran on
    sent,         \* payloads handed to socket.send, per connection
    broken,       \* connections whose socket.send throws
    storageDown,  \* TRUE when a storage call rejects
    users, messages, chatGroups, groupMembers, statuses, statusViews,
    conversations,   \* MemStorage maps, a function of the id
    nextStatusId, \* MemStorage.statusId, the id the next status gets
    now,          \* the clock, in days
    msgScan,      \* the message cleanup run in progress
    statusScan,   \* the status cleanup run in progress
    req,          \* HTTP handlers in flight
    cSocket,      \* client: the module's socket, 0 for null
    cState,       \* client: readyState of every WebSocket it created
    cTimer,       \* client: socketReconnectTimer, 0 for null
    cArmed,       \* client: TRUE while the timeout is pending
    cAuthSent,    \* client: auth messages sent, per WebSocket
    cStopped      \* client: closeSocket was called after the last initSocket

storeVars == <<users, messages, chatGroups, groupMembers, statuses,
               statusViews, conversations, nextStatusId>>
timeVars == <<now, msgScan, statusScan>>
wsVars == <<clients, wsUserId, readyState, lastFrame>>
clientVars == <<cSocket, cState, cTimer, cArmed, cAuthSent, cStopped>>
faultVars == <<broken, storageDown>>
vars == <<clients, wsUserId, readyState, sent, broken, storageDown,
          users, messages, chatGroups, groupMembers, statuses, statusViews,
          conversations, nextStatusId, now, msgScan, statusScan, req,
          lastFrame, cSocket, cState, cTimer, cArmed, cAuthSent, cStopped>>

\* ----------------------------------------------------------------- strings
\* A string is a sequence of one-character strings.
DigitChars == <<"0", "1", "2", "3", "4", "5", "6", "7", "8", "9">>

IsDigit(ch) == \E i \in 1..10 : DigitChars[i] = ch

DigitVal(ch) == (CHOOSE i \in 1..10 : DigitChars[i] = ch) - 1

RECURSIVE ToStr(_)
\* Number.prototype.toString of a non-negative integer (template literal)
ToStr(n) == IF n < 10 THEN <<DigitChars[n + 1]>>
            ELSE ToStr(n \div 10) \o <<DigitChars[(n % 10) + 1]>>

GroupPrefix == <<"g", "r", "o", "u", "p", "_">>

\* String.prototype.startsWith
StartsWith(s, p) == Len(s) >= Len(p) /\ SubSeq(s, 1, Len(p)) = p

RECURSIVE IndexOfFrom(_, _, _)
IndexOfFrom(s, p, i) ==
    IF i + Len(p) - 1 > Len(s) THEN 0
    ELSE IF SubSeq(s, i, i + Len(p) - 1) = p THEN i
    ELSE IndexOfFrom(s, p, i + 1)

\* String.prototype.replace(pattern, '') with a string pattern: the first
\* occurrence only
ReplaceFirst(s, p) ==
    LET i == IndexOfFrom(s, p, 1)
    IN  IF i = 0 THEN s
        ELSE SubSeq(s, 1, i - 1) \o SubSeq(s, i + Len(p), Len(s))

RECURSIVE SplitFrom(_, _, _)
SplitFrom(s, sep, cur) ==
    IF s = <<>> THEN <<cur>>
    ELSE IF Head(s) = sep THEN <<cur>> \o SplitFrom(Tail(s), sep, <<>>)
    ELSE SplitFrom(Tail(s), sep, Append(cur, Head(s)))

\* String.prototype.split on a one-character separator
Split(s, sep) == SplitFrom(s, sep, <<>>)

RECURSIVE ParseDigits(_, _)
ParseDigits(s, acc) ==
    IF s = <<>> \/ ~IsDigit(Head(s)) THEN acc
    ELSE ParseDigits(Tail(s), acc * 10 + DigitVal(Head(s)))

\* variant: only the first digit is read
ParseInt_OneDigit(s) == IF s = <<>> \/ ~IsDigit(Head(s)) THEN NaN
                        ELSE DigitVal(Head(s))

\* parseInt: the leading run of digits, NaN when there is none
ParseInt(s) == IF s = <<>> \/ ~IsDigit(Head(s)) THEN NaN
               ELSE ParseDigits(s, 0)

\* ---------------------------------------------------------------- registry
RECURSIVE EntryIndex(_, _, _)
EntryIndex(map, k, i) ==
    IF i > Len(map) THEN 0
    ELSE IF map[i].key = k THEN i
    ELSE EntryIndex(map, k, i + 1)

\* Map.prototype.has
MapHas(map, k) == EntryIndex(map, k, 1) # 0

\* clients.get(userId) || []
MapGet(map, k) ==
    LET i == EntryIndex(map, k, 1)
    IN  IF i = 0 THEN <<>> ELSE map[i].val

\* Map.prototype.set: an existing key keeps its place, a new key goes last
MapSet(map, k, v) ==
    LET i == EntryIndex(map, k, 1)
    IN  IF i = 0 THEN Append(map, [key |-> k, val |-> v])
        ELSE [map EXCEPT ![i] = [key |-> k, val |-> v]]

\* Map.prototype.delete
MapDelete(map, k) ==
    LET i == EntryIndex(map, k, 1)
    IN  IF i = 0 THEN map
        ELSE SubSeq(map, 1, i - 1) \o SubSeq(map, i + 1, Len(map))

RECURSIVE Filter(_, _)
\* userSockets.filter(socket => socket !== ws)
Filter(s, ws) ==
    IF s = <<>> THEN <<>>
    ELSE IF Head(s) # ws THEN <<Head(s)>> \o Filter(Tail(s), ws)
    ELSE Filter(Tail(s), ws)

Range(s) == {s[i] : i \in 1..Len(s)}

Count(s, x) == Cardinality({i \in 1..Len(s) : s[i] = x})

\* how many times connection c is listed in the whole registry
Listings(c) ==
    LET RECURSIVE Sum(_)
        Sum(i) == IF i > Len(clients) THEN 0
                  ELSE Count(clients[i].val, c) + Sum(i + 1)
    IN  Sum(1)

\* listings in the registry beyond the first of each listed connection
Reauths ==
    LET RECURSIVE Sum(_)
        Sum(i) == IF i > Len(clients) THEN 0
                  ELSE Len(clients[i].val) + Sum(i + 1)
    IN  Sum(1) - Cardinality({c \in Conns : Listings(c) > 0})

\* JavaScript truthiness of ws.userId
Truthy(v) == v # None /\ v # 0 /\ v # NaN

\* ---------------------------------------------------------------- delivery
\* variant: a socket counts as open until its close event
IsOpen_UntilClosed(c) == readyState[c] \in {"OPEN", "CLOSING"}

\* socket.readyState === WebSocket.OPEN
IsOpen(c) == readyState[c] = "OPEN"

Payload(type, id) == [type |-> type, id |-> id]

\* socket.send(JSON.stringify(data)) on one socket: the payload is handed to
\* the transport, or the call throws
SocketSend(log, c, data) ==
    IF c \in broken THEN [log |-> log, threw |-> TRUE]
    ELSE [log |-> [log EXCEPT ![c] = Append(@, data)], threw |-> FALSE]

RECURSIVE ForEachSocket(_, _, _)
\* sockets.forEach(socket => { if (open) socket.send(...) }): a throw ends
\* the loop
ForEachSocket(log, socks, data) ==
    IF socks = <<>> THEN [log |-> log, threw |-> FALSE]
    ELSE IF ~IsOpen(Head(socks)) THEN ForEachSocket(log, Tail(socks), data)
    ELSE LET r == SocketSend(log, Head(socks), data)
         IN  IF r.threw THEN r ELSE ForEachSocket(r.log, Tail(socks), data)

\* variant: an identity without entry is reached through every socket
sendToUser_Fallback(log, userId, data) ==
    IF MapHas(clients, userId)
    THEN ForEachSocket(log, MapGet(clients, userId), data)
    ELSE ForEachSocket(log, [c \in Conns |-> c], data)

sendToUser(log, userId, data) == ForEachSocket(log, MapGet(clients, userId), data)

RECURSIVE BroadcastFrom(_, _, _)
BroadcastFrom(log, i, data) ==
    IF i > Len(clients) THEN [log |-> log, threw |-> FALSE]
    ELSE LET r == ForEachSocket(log, clients[i].val, data)
         IN  IF r.threw THEN r ELSE BroadcastFrom(r.log, i + 1, data)

\* variant: every socket of the server (wss.clients) instead of the registry
broadcast_AllSockets(log, data) ==
    ForEachSocket(log, [c \in Conns |-> c], data)

broadcast(log, data) == BroadcastFrom(log, 1, data)

RECURSIVE ForEachMember(_, _, _)
\* members.forEach(member => sendToUser(member.userId, data))
ForEachMember(log, members, data) ==
    IF members = <<>> THEN [log |-> log, threw |-> FALSE]
    ELSE LET r == sendToUser(log, Head(members), data)
         IN  IF r.threw THEN r ELSE ForEachMember(r.log, Tail(members), data)

\* ------------------------------------------------------------------- store
RECURSIVE Ascending(_)
\* the ids of a set in Map iteration order (ids are handed out increasing)
Ascending(S) ==
    IF S = {} THEN <<>>
    ELSE LET m == CHOOSE x \in S : \A y \in S : x <= y
         IN  <<m>> \o Ascending(S \ {m})

FirstOr0(ids) == IF ids = <<>> THEN 0 ELSE Head(ids)

\* MemStorage.getChatGroup: the id, or 0 for undefined
getChatGroup(id) == IF id \in DOMAIN chatGroups THEN id ELSE 0

\* MemStorage.getUser
getUser(id) == IF id \in DOMAIN users THEN id ELSE 0

\* MemStorage.getStatus
getStatus(id) == IF id \in DOMAIN statuses THEN id ELSE 0

\* variant: find instead of filter, the first member record only
getGroupMembers_First(groupId) ==
    LET InGroup(m) == m.groupId = groupId
        ids == Ascending({i \in DOMAIN groupMembers : InGroup(groupMembers[i])})
    IN  IF ids = <<>> THEN <<>> ELSE <<groupMembers[Head(ids)].userId>>

\* MemStorage.getGroupMembers: the userId of every member record of the group
getGroupMembers(groupId) ==
    LET InGroup(m) == m.groupId = groupId
        ids == Ascending({i \in DOMAIN groupMembers : InGroup(groupMembers[i])})
    IN  [i \in 1..Len(ids) |-> groupMembers[ids[i]].userId]

\* MemStorage.getGroupMember: the first matching record id, or 0
getGroupMember(groupId, userId) ==
    LET Match(m) == m.groupId = groupId /\ m.userId = userId
    IN  FirstOr0(Ascending({i \in DOMAIN groupMembers : Match(groupMembers[i])}))

\* === on numbers: NaN equals nothing
StrictEq(x, y) == x # NaN /\ y # NaN /\ x = y

\* MemStorage.getConversation: unordered pair match, first hit, or 0
getConversation(user1Id, user2Id) ==
    LET Match(cv) ==
            \/ StrictEq(cv.user1Id, user1Id) /\ StrictEq(cv.user2Id, user2Id)
            \/ StrictEq(cv.user1Id, user2Id) /\ StrictEq(cv.user2Id, user1Id)
    IN  FirstOr0(Ascending({i \in DOMAIN conversations : Match(conversations[i])}))

\* MemStorage.createMessage
createMessage(chatId, senderId) ==
    Append(messages, [chatId |-> chatId, senderId |-> senderId,
                      timestamp |-> now,
                      isRead |-> FALSE, isDeleted |-> FALSE])

\* variant: the status is handed back without being put in the map
createStatus_Lost(userId) == statuses

\* variant: the record is rebuilt from its creation fields
updateMessage_Rebuilt(id, isRead) ==
    IF id \in DOMAIN messages
    THEN [messages EXCEPT ![id].isRead = isRead, ![id].isDeleted = FALSE]
    ELSE messages

\* MemStorage.updateMessage: the read flag
updateMessage(id, isRead) ==
    IF id \in DOMAIN messages
    THEN [messages EXCEPT ![id].isRead = isRead]
    ELSE messages

\* MemStorage.deleteMessage: the soft delete
deleteMessage(id) ==
    IF id \in DOMAIN messages
    THEN [messages EXCEPT ![id].isDeleted = TRUE]
    ELSE messages

\* MemStorage.deleteStatus: Map.delete
deleteStatus(id) == [i \in DOMAIN statuses \ {id} |-> statuses[i]]

\* variant: a status is still listed at the moment it expires
getActiveStatuses_Inclusive ==
    {id \in DOMAIN statuses :
        statuses[id].expiresAt = None \/ statuses[id].expiresAt >= now}

\* MemStorage.getActiveStatuses at the time of the call: the filter, as the
\* set of ids it keeps
getActiveStatuses ==
    {id \in DOMAIN statuses :
        statuses[id].expiresAt = None \/ statuses[id].expiresAt > now}

\* variant: the time to live is counted from the day after creation
createStatus_LateExpiry(userId) ==
    [id \in DOMAIN statuses \cup {nextStatusId} |->
        IF id = nextStatusId
        THEN [userId |-> userId, createdAt |-> now,
              expiresAt |-> now + ThreeDays + 1]
        ELSE statuses[id]]

\* MemStorage.createStatus
createStatus(userId) ==
    [id \in DOMAIN statuses \cup {nextStatusId} |->
        IF id = nextStatusId
        THEN [userId |-> userId, createdAt |-> now,
              expiresAt |-> now + ThreeDays]
        ELSE statuses[id]]

\* MemStorage.createChatGroup
createChatGroup(creatorId) == Append(chatGroups, [creatorId |-> creatorId])

\* MemStorage.addGroupMember
addGroupMember(groupId, userId, isAdmin) ==
    Append(groupMembers, [groupId |-> groupId, userId |-> userId,
                          isAdmin |-> isAdmin, canWrite |-> TRUE])

\* MemStorage.addStatusView
addStatusView(statusId, viewerId) ==
    Append(statusViews, [statusId |-> statusId, viewerId |-> viewerId])

\* MemStorage.createConversation
createConversation(user1Id, user2Id) ==
    Append(conversations, [user1Id |-> user1Id, user2Id |-> user2Id, bumps |-> 0])

\* MemStorage.updateConversationLastMessage
updateConversationLastMessage(id) ==
    IF id \in DOMAIN conversations
    THEN [conversations EXCEPT ![id].bumps = @ + 1]
    ELSE conversations

\* -------------------------------------------------------------------- init
FreeReq == [kind |-> "none", pc |-> "free", chatId |-> <<>>, ent |-> 0,
            a |-> 0, b |-> 0, found |-> 0, members |-> <<>>,
            status |-> 0, body |-> 0]

\* no cleanup run in progress; rejected is the id whose storage call rejected
\* and ended the last run, 0 when it ran to the end of the loop
IdleScan == [pos |-> 0, cutoff |-> 0, rejected |-> 0]

\* The server after construction, with users 1..MaxUser registered.
Init ==
    /\ clients = <<>>
    /\ wsUserId = [c \in Conns |-> None]
    /\ readyState = [c \in Conns |-> "NEW"]
    /\ lastFrame = [c \in Conns |-> "none"]
    /\ cSocket = 0
    /\ cState = <<>>
    /\ cTimer = 0
    /\ cArmed = FALSE
    /\ cAuthSent = <<>>
    /\ cStopped = FALSE
    /\ sent = [c \in Conns |-> <<>>]
    /\ broken = {}
    /\ storageDown = FALSE
    /\ users = [i \in 1..MaxUser |-> [username |-> i, email |-> i]]
    /\ messages = <<>>
    /\ chatGroups = <<>>
    /\ groupMembers = <<>>
    /\ statuses = <<>>
    /\ statusViews = <<>>
    /\ conversations = <<>>
    /\ nextStatusId = 1
    /\ now = 0
    /\ msgScan = IdleScan
    /\ statusScan = IdleScan
    /\ req = [r \in Reqs |-> FreeReq]

\* --------------------------------------------------------------- websocket
\* wss.on('connection'): a new socket, open and untagged
WsConnect(c) ==
    /\ readyState[c] = "NEW"
    /\ IF c = 1 THEN TRUE ELSE readyState[c - 1] # "NEW"
    /\ readyState' = [readyState EXCEPT ![c] = "OPEN"]
    /\ UNCHANGED <<clientVars, timeVars, lastFrame, clients, wsUserId, sent, faultVars, storeVars, req>>

\* variant: the socket is registered without the confirmation being sent
WsAuth_Silent(c, userId) ==
    /\ readyState[c] = "OPEN"
    /\ wsUserId' = [wsUserId EXCEPT ![c] = userId]
    /\ clients' = MapSet(clients, userId, Append(MapGet(clients, userId), c))
    /\ lastFrame' = [lastFrame EXCEPT ![c] = "auth"]
    /\ UNCHANGED <<clientVars, timeVars, readyState, sent, faultVars, storeVars, req>>

\* ws.on('message') with data.type === 'auth'
WsAuth(c, userId) ==
    /\ readyState[c] = "OPEN"
    /\ wsUserId' = [wsUserId EXCEPT ![c] = userId]
    /\ clients' = MapSet(clients, userId, Append(MapGet(clients, userId), c))
    /\ sent' = SocketSend(sent, c, Payload("auth_success", 0)).log
    /\ lastFrame' = [lastFrame EXCEPT ![c] = "auth"]
    /\ UNCHANGED <<clientVars, timeVars, readyState, faultVars, storeVars, req>>

\* frames the message handler receives that are not an auth message:
\* another type, or text JSON.parse rejects
OtherFrames == {"new_message", "invalid"}

\* variant: a frame of another type is answered on the same socket
WsOther_Echo(c, frame) ==
    /\ readyState[c] = "OPEN"
    /\ frame \in OtherFrames
    /\ lastFrame' = [lastFrame EXCEPT ![c] = frame]
    /\ sent' = IF frame = "invalid" THEN sent
               ELSE SocketSend(sent, c, Payload(frame, 0)).log
    /\ UNCHANGED <<clientVars, timeVars, clients, wsUserId, readyState, faultVars, storeVars, req>>

\* ws.on('message') with a frame that is not an auth message: the parse
\* error is caught and logged, any other type matches no branch
WsOther(c, frame) ==
    /\ readyState[c] = "OPEN"
    /\ frame \in OtherFrames
    /\ lastFrame' = [lastFrame EXCEPT ![c] = frame]
    /\ UNCHANGED <<clientVars, timeVars, clients, wsUserId, readyState, sent, faultVars, storeVars, req>>

\* the transport leaves the open state before its close event is emitted
WsClosing(c) ==
    /\ readyState[c] = "OPEN"
    /\ readyState' = [readyState EXCEPT ![c] = "CLOSING"]
    /\ UNCHANGED <<clientVars, timeVars, lastFrame, clients, wsUserId, sent, faultVars, storeVars, req>>

\* variant: the close handler stores the filtered list even when it is empty
WsClose_KeepEntry(c) ==
    /\ readyState[c] \in {"OPEN", "CLOSING"}
    /\ readyState' = [readyState EXCEPT ![c] = "CLOSED"]
    /\ clients' =
         IF Truthy(wsUserId[c])
         THEN MapSet(clients, wsUserId[c], Filter(MapGet(clients, wsUserId[c]), c))
         ELSE clients
    /\ UNCHANGED <<clientVars, timeVars, lastFrame, wsUserId, sent, faultVars, storeVars, req>>

\* ws.on('close')
WsClose(c) ==
    /\ readyState[c] \in {"OPEN", "CLOSING"}
    /\ readyState' = [readyState EXCEPT ![c] = "CLOSED"]
    /\ clients' =
         IF Truthy(wsUserId[c])
         THEN LET newUserSockets == Filter(MapGet(clients, wsUserId[c]), c)
              IN  IF Len(newUserSockets) > 0
                  THEN MapSet(clients, wsUserId[c], newUserSockets)
                  ELSE MapDelete(clients, wsUserId[c])
         ELSE clients
    /\ UNCHANGED <<clientVars, timeVars, lastFrame, wsUserId, sent, faultVars, storeVars, req>>

\* ------------------------------------------------------------ client socket
\* WebSocket.close(): a socket that is connecting or open starts closing, its
\* close event still to come; null and closed sockets are left alone
CloseCall(states, s) ==
    IF s # 0 /\ states[s] \in {"CONNECTING", "OPEN"}
    THEN [states EXCEPT ![s] = "CLOSING"]
    ELSE states

\* body of initSocket: close the module's socket, create the next one
NewSocket ==
    /\ Len(cState) < MaxSocket
    /\ cState' = Append(CloseCall(cState, cSocket), "CONNECTING")
    /\ cAuthSent' = Append(cAuthSent, 0)
    /\ cSocket' = Len(cState) + 1

\* initSocket(userId) called by the useWebSocket effect
InitSocket ==
    /\ NewSocket
    /\ cStopped' = FALSE
    /\ UNCHANGED <<cTimer, cArmed, timeVars, wsVars, sent, faultVars, storeVars, req>>

\* the reconnect timeout fires: initSocket(userId); the module's timer
\* variable keeps the id of the timeout that has fired
ReconnectTimer ==
    /\ cArmed
    /\ cArmed' = FALSE
    /\ NewSocket
    /\ UNCHANGED <<cTimer, cStopped, timeVars, wsVars, sent, faultVars, storeVars, req>>

\* socket.onopen of socket s
SocketOpen(s) ==
    /\ s \in DOMAIN cState
    /\ cState[s] = "CONNECTING"
    /\ cState' = [cState EXCEPT ![s] = "OPEN"]
    /\ cAuthSent' =
         IF cSocket # 0
         THEN IF cState'[cSocket] = "OPEN"
              THEN [cAuthSent EXCEPT ![cSocket] = @ + 1]
              ELSE cAuthSent
         ELSE cAuthSent
    /\ cTimer' = 0
    /\ cArmed' = IF cTimer # 0 THEN FALSE ELSE cArmed
    /\ UNCHANGED <<cSocket, cStopped, timeVars, wsVars, sent, faultVars, storeVars, req>>

\* socket.onerror of socket s: the connection of s has failed and its close
\* event follows; the handler closes the module's socket
SocketError(s) ==
    /\ s \in DOMAIN cState
    /\ cState[s] \in {"CONNECTING", "OPEN"}
    /\ cState' = CloseCall([cState EXCEPT ![s] = "CLOSING"], cSocket)
    /\ UNCHANGED <<cSocket, cTimer, cArmed, cAuthSent, cStopped, timeVars, wsVars, sent,
                   faultVars, storeVars, req>>

\* socket.onclose of socket s: schedule a reconnect unless the timer
\* variable is set
SocketClose(s) ==
    /\ s \in DOMAIN cState
    /\ cState[s] \in {"OPEN", "CLOSING"}
    /\ cState' = [cState EXCEPT ![s] = "CLOSED"]
    /\ cTimer' = IF cTimer = 0 THEN 1 ELSE cTimer
    /\ cArmed' = IF cTimer = 0 THEN TRUE ELSE cArmed
    /\ UNCHANGED <<cSocket, cAuthSent, cStopped, timeVars, wsVars, sent, faultVars, storeVars, req>>

\* closeSocket() called by the cleanup of the useWebSocket effect
CloseSocket ==
    /\ cState' = CloseCall(cState, cSocket)
    /\ cSocket' = 0
    /\ cTimer' = 0
    /\ cArmed' = IF cTimer # 0 THEN FALSE ELSE cArmed
    /\ cStopped' = TRUE
    /\ UNCHANGED <<cAuthSent, timeVars, wsVars, sent, faultVars, storeVars, req>>

\* ---------------------------------------------------------------- handlers
\* slot r takes the next request
CanStart(r) ==
    /\ req[r].pc = "free"
    /\ IF r = 1 THEN TRUE ELSE req[r - 1].pc # "free"

\* the request object a handler starts with
NewReq(kind) == [FreeReq EXCEPT !.kind = kind]

\* the handler has sent its response; its locals are gone
Done(r, status, body) ==
    [req EXCEPT ![r] = [FreeReq EXCEPT !.kind = req[r].kind, !.pc = "done",
                                       !.ent = req[r].ent, !.status = status,
                                       !.body = body]]

\* catch (error) { res.status(500) }
Fail(r) == Done(r, 500, 0)

GroupKeys == {GroupPrefix \o ToStr(g) : g \in 1..MaxGroup}
DirectKeys == {ToStr(x) \o <<"_">> \o ToStr(y) : x, y \in UserIds}
\* the key the client builds for a conversation, and a key with a non-number
OtherKeys == {<<"u", "s", "e", "r", "_", "1", "_", "2">>, <<"1", "_", "x">>}
ChatKeys == GroupKeys \cup DirectKeys \cup OtherKeys

\* `group_${group.id}`
EncodeGroup(g) == GroupPrefix \o ToStr(g)

\* the key of a direct chat of a and b, in the order supplied
EncodeDirect(a, b) == ToStr(a) \o <<"_">> \o ToStr(b)

KeyIds == 0..MaxKeyId
EncodedKeys == {EncodeGroup(g) : g \in KeyIds} \cup
               {EncodeDirect(a, b) : a, b \in KeyIds}

\* variant: the handler goes on to routing whatever parse and createMessage did
PostMessage_Routes(r, chatId, senderId, valid) ==
    /\ CanStart(r)
    /\ IF ~valid \/ storageDown
       THEN /\ req' = [req EXCEPT ![r] =
                         [NewReq("message") EXCEPT
                            !.chatId = chatId, !.pc = "created"]]
            /\ UNCHANGED messages
       ELSE /\ messages' = createMessage(chatId, senderId)
            /\ req' = [req EXCEPT ![r] =
                         [NewReq("message") EXCEPT
                            !.chatId = chatId, !.pc = "created",
                            !.ent = Len(messages) + 1]]
    /\ UNCHANGED <<clientVars, timeVars, wsVars, sent, faultVars, users, chatGroups, groupMembers,
                   statuses, statusViews, nextStatusId, conversations>>

\* POST /api/messages: parse the body and create the message
PostMessage(r, chatId, senderId, valid) ==
    /\ CanStart(r)
    /\ IF ~valid \/ storageDown
       THEN /\ req' = [req EXCEPT ![r] =
                         [NewReq("message") EXCEPT
                            !.pc = "done",
                            !.status = IF valid THEN 500 ELSE 400]]
            /\ UNCHANGED messages
       ELSE /\ messages' = createMessage(chatId, senderId)
            /\ req' = [req EXCEPT ![r] =
                         [NewReq("message") EXCEPT
                            !.chatId = chatId, !.pc = "created",
                            !.ent = Len(messages) + 1]]
    /\ UNCHANGED <<clientVars, timeVars, wsVars, sent, faultVars, users, chatGroups, groupMembers,
                   statuses, statusViews, nextStatusId, conversations>>

\* POST /api/messages after createMessage: the chat key decides the route
MessageRoute(r) ==
    /\ req[r].kind = "message" /\ req[r].pc = "created"
    /\ LET chatId == req[r].chatId
           data == Payload("new_message", req[r].ent)
       IN  IF StartsWith(chatId, GroupPrefix)
           THEN LET groupId == ParseInt(ReplaceFirst(chatId, GroupPrefix))
                IN  /\ req' = IF storageDown THEN Fail(r)
                              ELSE [req EXCEPT ![r].pc = "gotGroup",
                                               ![r].a = groupId,
                                               ![r].found = getChatGroup(groupId)]
                    /\ UNCHANGED sent
           ELSE LET parts == Split(chatId, "_")
                IN  IF Len(parts) = 2
                    THEN LET user1Id == ParseInt(parts[1])
                             user2Id == ParseInt(parts[2])
                             s1 == sendToUser(sent, user1Id, data)
                             s2 == sendToUser(s1.log, user2Id, data)
                         IN  IF s1.threw
                             THEN sent' = s1.log /\ req' = Fail(r)
                             ELSE /\ sent' = s2.log
                                  /\ req' = IF s2.threw \/ storageDown THEN Fail(r)
                                            ELSE [req EXCEPT ![r].pc = "gotConv",
                                                    ![r].a = user1Id,
                                                    ![r].b = user2Id,
                                                    ![r].found =
                                                      getConversation(user1Id, user2Id)]
                    ELSE /\ req' = Done(r, 201, req[r].ent)
                         /\ UNCHANGED sent
    /\ UNCHANGED <<clientVars, timeVars, wsVars, faultVars, storeVars>>

\* if (group) await sendToGroup(...): the membership lookup of sendToGroup
MessageGroup(r) ==
    /\ req[r].kind = "message" /\ req[r].pc = "gotGroup"
    /\ req' = IF req[r].found = 0 THEN Done(r, 201, req[r].ent)
              ELSE IF storageDown THEN Fail(r)
              ELSE [req EXCEPT ![r].pc = "gotMembers",
                               ![r].members = getGroupMembers(req[r].a)]
    /\ UNCHANGED <<clientVars, timeVars, wsVars, sent, faultVars, storeVars>>

\* sendToGroup after its await: members.forEach(sendToUser)
SendToGroup(r) ==
    /\ req[r].pc = "gotMembers"
    /\ LET data == IF req[r].kind = "message"
                   THEN Payload("new_message", req[r].ent)
                   ELSE Payload("member_added", req[r].ent)
           s == ForEachMember(sent, req[r].members, data)
       IN  /\ sent' = s.log
           /\ req' = IF s.threw THEN Fail(r) ELSE [req EXCEPT ![r].pc = "respond"]
    /\ UNCHANGED <<clientVars, timeVars, wsVars, faultVars, storeVars>>

\* let conversation = await getConversation(...): create it or bump it
MessageConversation(r) ==
    /\ req[r].kind = "message" /\ req[r].pc = "gotConv"
    /\ IF storageDown
       THEN req' = Fail(r) /\ UNCHANGED conversations
       ELSE /\ conversations' =
                 IF req[r].found = 0
                 THEN createConversation(req[r].a, req[r].b)
                 ELSE updateConversationLastMessage(req[r].found)
            /\ req' = [req EXCEPT ![r].pc = "respond"]
    /\ UNCHANGED <<clientVars, timeVars, wsVars, sent, faultVars, users, messages, chatGroups,
                   groupMembers, statuses, statusViews, nextStatusId>>

\* Array.from(users.values()).find(user => user.email === email), 0 for
\* undefined
getUserByEmail(email) ==
    FirstOr0(Ascending({i \in DOMAIN users : users[i].email = email}))

getUserByUsername(username) ==
    FirstOr0(Ascending({i \in DOMAIN users : users[i].username = username}))

\* users.set(this.userId++, user)
createUser(username, email) ==
    Append(users, [username |-> username, email |-> email])

\* POST /api/register: parse the body and look the email up
PostRegister(r, email, username, valid) ==
    /\ CanStart(r)
    /\ req' = [req EXCEPT ![r] =
                 IF ~valid \/ storageDown
                 THEN [NewReq("register") EXCEPT
                         !.pc = "done",
                         !.status = IF valid THEN 500 ELSE 400]
                 ELSE [NewReq("register") EXCEPT
                         !.pc = "gotEmail", !.a = email, !.b = username,
                         !.found = getUserByEmail(email)]]
    /\ UNCHANGED <<clientVars, timeVars, wsVars, sent, faultVars, storeVars>>

\* POST /api/register after getUserByEmail: look the username up
RegisterEmail(r) ==
    /\ req[r].kind = "register" /\ req[r].pc = "gotEmail"
    /\ req' = IF req[r].found # 0 THEN Done(r, 400, 0)
              ELSE IF storageDown THEN Fail(r)
              ELSE [req EXCEPT ![r].pc = "gotUsername",
                               ![r].found = getUserByUsername(req[r].b)]
    /\ UNCHANGED <<clientVars, timeVars, wsVars, sent, faultVars, storeVars>>

\* POST /api/register after getUserByUsername: start bcrypt.hash
RegisterUsername(r) ==
    /\ req[r].kind = "register" /\ req[r].pc = "gotUsername"
    /\ req' = IF req[r].found # 0 THEN Done(r, 400, 0)
              ELSE [req EXCEPT ![r].pc = "hashing", ![r].found = 0]
    /\ UNCHANGED <<clientVars, timeVars, wsVars, sent, faultVars, storeVars>>

\* POST /api/register after bcrypt.hash: create the user
RegisterCreate(r) ==
    /\ req[r].kind = "register" /\ req[r].pc = "hashing"
    /\ IF storageDown
       THEN /\ req' = Fail(r)
            /\ UNCHANGED users
       ELSE /\ users' = createUser(req[r].b, req[r].a)
            /\ req' = [req EXCEPT ![r].pc = "respond",
                                  ![r].ent = Len(users) + 1]
    /\ UNCHANGED <<clientVars, timeVars, wsVars, sent, faultVars, messages, chatGroups, groupMembers,
                   statuses, statusViews, nextStatusId, conversations>>

\* res.status(201).json(entity) after the last await of a handler
Respond(r) ==
    /\ req[r].pc = "respond"
    /\ req' = Done(r, 201, req[r].ent)
    /\ UNCHANGED <<clientVars, timeVars, wsVars, sent, faultVars, storeVars>>

\* POST /api/statuses: parse the body and create the status
PostStatus(r, userId, valid) ==
    /\ CanStart(r)
    /\ IF ~valid \/ storageDown
       THEN /\ req' = [req EXCEPT ![r] =
                         [NewReq("status") EXCEPT
                            !.pc = "done",
                            !.status = IF valid THEN 500 ELSE 400]]
            /\ UNCHANGED <<statuses, nextStatusId>>
       ELSE /\ statuses' = createStatus(userId)
            /\ nextStatusId' = nextStatusId + 1
            /\ req' = [req EXCEPT ![r] =
                         [NewReq("status") EXCEPT
                            !.pc = "created", !.ent = nextStatusId]]
    /\ UNCHANGED <<clientVars, timeVars, wsVars, sent, faultVars, users, messages, chatGroups,
                   groupMembers, statusViews, conversations>>

\* POST /api/statuses after createStatus: broadcast, then respond
StatusBroadcast(r) ==
    /\ req[r].kind = "status" /\ req[r].pc = "created"
    /\ LET s == broadcast(sent, Payload("new_status", req[r].ent))
       IN  /\ sent' = s.log
           /\ req' = IF s.threw THEN Fail(r) ELSE Done(r, 201, req[r].ent)
    /\ UNCHANGED <<clientVars, timeVars, wsVars, faultVars, storeVars>>

\* POST /api/groups: create the group
PostGroup(r, creatorId) ==
    /\ CanStart(r)
    /\ IF storageDown
       THEN /\ req' = [req EXCEPT ![r] =
                         [NewReq("group") EXCEPT
                            !.pc = "done", !.status = 500]]
            /\ UNCHANGED chatGroups
       ELSE /\ chatGroups' = createChatGroup(creatorId)
            /\ req' = [req EXCEPT ![r] =
                         [NewReq("group") EXCEPT
                            !.pc = "groupCreated", !.a = creatorId,
                            !.ent = Len(chatGroups) + 1]]
    /\ UNCHANGED <<clientVars, timeVars, wsVars, sent, faultVars, users, messages, groupMembers,
                   statuses, statusViews, nextStatusId, conversations>>

\* POST /api/groups: add the creator as admin
GroupAddCreator(r) ==
    /\ req[r].kind = "group" /\ req[r].pc = "groupCreated"
    /\ IF storageDown
       THEN req' = Fail(r) /\ UNCHANGED groupMembers
       ELSE /\ groupMembers' = addGroupMember(req[r].ent, req[r].a, TRUE)
            /\ req' = [req EXCEPT ![r].pc = "respond"]
    /\ UNCHANGED <<clientVars, timeVars, wsVars, sent, faultVars, users, messages, chatGroups,
                   statuses, statusViews, nextStatusId, conversations>>

\* POST /api/groups/:id/members: look the group up
PostMember(r, groupId, userId) ==
    /\ CanStart(r)
    /\ req' = [req EXCEPT ![r] =
                 IF storageDown
                 THEN [NewReq("member") EXCEPT !.pc = "done",
                                      !.status = 500]
                 ELSE [NewReq("member") EXCEPT !.pc = "gotGroup",
                                      !.a = groupId, !.b = userId,
                                      !.found = getChatGroup(groupId)]]
    /\ UNCHANGED <<clientVars, timeVars, wsVars, sent, faultVars, storeVars>>

\* if (!group) 404; look the user up
MemberUser(r) ==
    /\ req[r].kind = "member" /\ req[r].pc = "gotGroup"
    /\ req' = IF req[r].found = 0 THEN Done(r, 404, 0)
              ELSE IF storageDown THEN Fail(r)
              ELSE [req EXCEPT ![r].pc = "gotUser",
                               ![r].found = getUser(req[r].b)]
    /\ UNCHANGED <<clientVars, timeVars, wsVars, sent, faultVars, storeVars>>

\* if (!user) 404; look the membership up
MemberExisting(r) ==
    /\ req[r].kind = "member" /\ req[r].pc = "gotUser"
    /\ req' = IF req[r].found = 0 THEN Done(r, 404, 0)
              ELSE IF storageDown THEN Fail(r)
              ELSE [req EXCEPT ![r].pc = "gotExisting",
                               ![r].found = getGroupMember(req[r].a, req[r].b)]
    /\ UNCHANGED <<clientVars, timeVars, wsVars, sent, faultVars, storeVars>>

\* if (existingMember) 400; add the member
MemberAdd(r) ==
    /\ req[r].kind = "member" /\ req[r].pc = "gotExisting"
    /\ IF req[r].found # 0
       THEN req' = Done(r, 400, 0) /\ UNCHANGED groupMembers
       ELSE IF storageDown
       THEN req' = Fail(r) /\ UNCHANGED groupMembers
       ELSE /\ groupMembers' = addGroupMember(req[r].a, req[r].b, FALSE)
            /\ req' = [req EXCEPT ![r].pc = "added",
                                  ![r].ent = Len(groupMembers) + 1]
    /\ UNCHANGED <<clientVars, timeVars, wsVars, sent, faultVars, users, messages, chatGroups,
                   statuses, statusViews, nextStatusId, conversations>>

\* await sendToGroup(groupId, member_added): its membership lookup
MemberNotify(r) ==
    /\ req[r].kind = "member" /\ req[r].pc = "added"
    /\ req' = IF storageDown THEN Fail(r)
              ELSE [req EXCEPT ![r].pc = "gotMembers",
                               ![r].members = getGroupMembers(req[r].a)]
    /\ UNCHANGED <<clientVars, timeVars, wsVars, sent, faultVars, storeVars>>

\* POST /api/statuses/:id/views: look the status up
PostView(r, statusId, viewerId) ==
    /\ CanStart(r)
    /\ req' = [req EXCEPT ![r] =
                 IF storageDown
                 THEN [NewReq("view") EXCEPT !.pc = "done",
                                      !.status = 500]
                 ELSE [NewReq("view") EXCEPT !.pc = "gotStatus",
                                      !.a = statusId, !.b = viewerId,
                                      !.found = getStatus(statusId)]]
    /\ UNCHANGED <<clientVars, timeVars, wsVars, sent, faultVars, storeVars>>

\* if (!status) 404; record the view
ViewRecord(r) ==
    /\ req[r].kind = "view" /\ req[r].pc = "gotStatus"
    /\ IF req[r].found = 0
       THEN req' = Done(r, 404, 0) /\ UNCHANGED statusViews
       ELSE IF storageDown
       THEN req' = Fail(r) /\ UNCHANGED statusViews
       ELSE /\ statusViews' = addStatusView(req[r].a, req[r].b)
            /\ req' = [req EXCEPT ![r].pc = "viewed",
                                  ![r].ent = Len(statusViews) + 1]
    /\ UNCHANGED <<clientVars, timeVars, wsVars, sent, faultVars, users, messages, chatGroups,
                   groupMembers, statuses, nextStatusId, conversations>>

\* sendToUser(status.userId, status_viewed), then respond
ViewNotify(r) ==
    /\ req[r].kind = "view" /\ req[r].pc = "viewed"
    /\ LET s == sendToUser(sent, statuses[req[r].found].userId,
                           Payload("status_viewed", req[r].ent))
       IN  /\ sent' = s.log
           /\ req' = IF s.threw THEN Fail(r) ELSE Done(r, 201, req[r].ent)
    /\ UNCHANGED <<clientVars, timeVars, wsVars, faultVars, storeVars>>

\* ----------------------------------------------------------------- cleanup
\* time passes
Tick ==
    /\ now < MaxNow
    /\ now' = now + 1
    /\ UNCHANGED <<clientVars, msgScan, statusScan, wsVars, sent, faultVars, storeVars, req>>

\* variant: a message exactly ten days old is retired too
MessageExpired_Inclusive(m, tenDaysAgo) == m.timestamp <= tenDaysAgo /\ ~m.isDeleted

\* message.timestamp < tenDaysAgo && !message.isDeleted
MessageExpired(m, tenDaysAgo) == m.timestamp < tenDaysAgo /\ ~m.isDeleted

\* variant: a status expiring at this very moment is removed too
StatusExpired_Inclusive(st, t) == st.expiresAt # None /\ st.expiresAt <= t

\* status.expiresAt && status.expiresAt < now
StatusExpired(st, t) == st.expiresAt # None /\ st.expiresAt < t

\* the first entry at or after pos the loop retires, 0 when it reaches the end
NextExpiredMessage(pos, tenDaysAgo) ==
    LET ids == {id \in DOMAIN messages :
                   id >= pos /\ MessageExpired(messages[id], tenDaysAgo)}
    IN  IF ids = {} THEN 0 ELSE CHOOSE id \in ids : \A j \in ids : id <= j

NextExpiredStatus(pos, t) ==
    LET ids == {id \in DOMAIN statuses :
                   id >= pos /\ StatusExpired(statuses[id], t)}
    IN  IF ids = {} THEN 0 ELSE CHOOSE id \in ids : \A j \in ids : id <= j

\* for (const [id, message] of storage.messages.entries()) from entry pos up
\* to its next await: the loop ends, or deleteMessage is called and the task
\* is suspended; a rejected call ends the task
MessageLoop(pos, tenDaysAgo, fails) ==
    LET id == NextExpiredMessage(pos, tenDaysAgo)
    IN  IF id = 0
        THEN msgScan' = IdleScan /\ UNCHANGED messages
        ELSE IF fails \/ storageDown
        THEN msgScan' = [IdleScan EXCEPT !.rejected = id] /\ UNCHANGED messages
        ELSE /\ messages' = deleteMessage(id)
             /\ msgScan' = [pos |-> id + 1, cutoff |-> tenDaysAgo,
                            rejected |-> 0]

\* for (const [id, status] of storage.statuses.entries()), likewise
StatusLoop(pos, t, fails) ==
    LET id == NextExpiredStatus(pos, t)
    IN  IF id = 0
        THEN statusScan' = IdleScan /\ UNCHANGED statuses
        ELSE IF fails \/ storageDown
        THEN statusScan' = [IdleScan EXCEPT !.rejected = id] /\ UNCHANGED statuses
        ELSE /\ statuses' = deleteStatus(id)
             /\ statusScan' = [pos |-> id + 1, cutoff |-> t, rejected |-> 0]

\* the daily timer fires: tenDaysAgo is computed and the loop starts
MessageCleanup(fails) ==
    /\ msgScan.pos = 0
    /\ MessageLoop(1, now - TenDays, fails)
    /\ UNCHANGED <<clientVars, now, statusScan, wsVars, sent, faultVars, users, chatGroups,
                   groupMembers, statuses, statusViews, conversations,
                   nextStatusId, req>>

\* the message cleanup resumes after await storage.deleteMessage(id)
MessageCleanupResume(fails) ==
    /\ msgScan.pos # 0
    /\ MessageLoop(msgScan.pos, msgScan.cutoff, fails)
    /\ UNCHANGED <<clientVars, now, statusScan, wsVars, sent, faultVars, users, chatGroups,
                   groupMembers, statuses, statusViews, conversations,
                   nextStatusId, req>>

\* the hourly timer fires: now is read and the loop starts
StatusCleanup(fails) ==
    /\ statusScan.pos = 0
    /\ StatusLoop(1, now, fails)
    /\ UNCHANGED <<clientVars, now, msgScan, wsVars, sent, faultVars, users, messages,
                   chatGroups, groupMembers, statusViews, conversations,
                   nextStatusId, req>>

\* the status cleanup resumes after await storage.deleteStatus(id)
StatusCleanupResume(fails) ==
    /\ statusScan.pos # 0
    /\ StatusLoop(statusScan.pos, statusScan.cutoff, fails)
    /\ UNCHANGED <<clientVars, now, msgScan, wsVars, sent, faultVars, users, messages,
                   chatGroups, groupMembers, statusViews, conversations,
                   nextStatusId, req>>

\* ------------------------------------------------------------------ faults
\* the transport of an open connection starts failing its sends
SendFails(c) ==
    /\ readyState[c] = "OPEN" /\ c \notin broken
    /\ broken' = broken \cup {c}
    /\ UNCHANGED <<clientVars, timeVars, wsVars, sent, storageDown, storeVars, req>>

\* the persistence layer starts rejecting its calls
StorageFails ==
    /\ ~storageDown
    /\ storageDown' = TRUE
    /\ UNCHANGED <<clientVars, timeVars, wsVars, sent, broken, storeVars, req>>

\* -------------------------------------------------------------------- next
\* The family of endpoints request q belongs to: statuses and their views,
\* direct chats, or groups.
KeyFamily(chatId) == IF StartsWith(chatId, GroupPrefix) THEN "group" ELSE "direct"

Family(q) ==
    CASE req[q].kind \in {"status", "view"} -> "status"
      [] req[q].kind \in {"group", "member"} -> "group"
      [] req[q].kind = "message" /\ req[q].ent \in DOMAIN messages ->
             KeyFamily(messages[req[q].ent].chatId)
      [] OTHER -> "none"

\* the requests of one run belong to one family
OneFamily(fam) == \A q \in Reqs : Family(q) \in {"none", fam}

InFlight == {q \in Reqs : req[q].pc \notin {"free", "done"}}

\* a connection sends a further auth frame only within the bound
AuthAllowed(c, bound) == Listings(c) = 0 \/ Reauths < bound

WsStep(reauth) ==
    \E c \in Conns :
        \/ WsConnect(c)
        \/ \E userId \in UserIds : AuthAllowed(c, reauth) /\ WsAuth(c, userId)
        \/ WsClosing(c)
        \/ WsClose(c)

StatusStart(r) ==
    /\ OneFamily("status")
    /\ \/ \E u \in UserIds, valid \in BOOLEAN : PostStatus(r, u, valid)
       \/ \E sid \in 1..MaxStatus, v \in 1..MaxSender : PostView(r, sid, v)

DirectStart(r) ==
    /\ OneFamily("direct")
    /\ \E k \in DirectKeys \cup OtherKeys, sender \in 1..MaxSender,
          valid \in BOOLEAN : PostMessage(r, k, sender, valid)

GroupStart(r) ==
    /\ OneFamily("group")
    /\ \/ \E u \in UserIds : PostGroup(r, u)
       \/ \E g \in 1..MaxGroup, u \in 1..(MaxUser + 1) : PostMember(r, g, u)
       \/ \E k \in GroupKeys, sender \in 1..MaxSender, valid \in BOOLEAN :
             PostMessage(r, k, sender, valid)

GroupStep(r) ==
    \/ MessageRoute(r)
    \/ MessageGroup(r)
    \/ SendToGroup(r)
    \/ Respond(r)
    \/ GroupAddCreator(r)
    \/ MemberUser(r)
    \/ MemberExisting(r)
    \/ MemberAdd(r)
    \/ MemberNotify(r)

HttpStep(r) ==
    \/ GroupStep(r)
    \/ MessageConversation(r)
    \/ StatusBroadcast(r)
    \/ ViewRecord(r)
    \/ ViewNotify(r)

HttpStart(r) == StatusStart(r) \/ DirectStart(r) \/ GroupStart(r)

Next ==
    \/ WsStep(MaxReauth)
    \/ \E r \in Reqs : Cardinality(InFlight) < MaxInflight /\ HttpStart(r)
    \/ \E r \in Reqs : HttpStep(r)

\* The server with a store and transports that never fail; connections may
\* repeat their auth frame, handlers run one after the other.
Spec == Init /\ [][Next]_vars

GroupNext ==
    \/ WsStep(0)
    \/ \E r \in Reqs : GroupStart(r)
    \/ \E r \in Reqs : GroupStep(r)

\* The group endpoints with handlers interleaved at their awaits.
GroupSpec == Init /\ [][GroupNext]_vars

NoFault == broken = {} /\ ~storageDown

FaultNext ==
    \/ WsStep(0)
    \/ \E r \in Reqs : Cardinality(InFlight) < MaxInflight /\ HttpStart(r)
    \/ \E r \in Reqs : HttpStep(r)
    \/ NoFault /\ StorageFails
    \/ \E c \in Conns : NoFault /\ SendFails(c)

\* The server with one fault: a store that starts rejecting its calls, or a
\* connection whose sends start to throw.
FaultSpec == Init /\ [][FaultNext]_vars

\* a caller of the storage interface marks a message read or unread
MarkRead(id, isRead) ==
    /\ ~storageDown
    /\ messages' = updateMessage(id, isRead)
    /\ UNCHANGED <<clientVars, timeVars, wsVars, sent, faultVars, users, chatGroups,
                   groupMembers, statuses, statusViews, conversations,
                   nextStatusId, req>>

\* requests that create the entities the cleanup tasks scan
RetireStart(r) ==
    \/ \E k \in OtherKeys, sender \in 1..MaxSender : PostMessage(r, k, sender, TRUE)
    \/ \E u \in 1..MaxSender : PostStatus(r, u, TRUE)

RetireNext(faults) ==
    \/ Tick
    \/ \E r \in Reqs : RetireStart(r)
    \/ \E r \in Reqs : MessageRoute(r) \/ StatusBroadcast(r)
    \/ \E fails \in faults : MessageCleanup(fails)
    \/ \E fails \in faults : MessageCleanupResume(fails)
    \/ \E fails \in faults : StatusCleanup(fails)
    \/ \E fails \in faults : StatusCleanupResume(fails)

\* The store, the clock and the two cleanup timers, storage calls succeeding.
RetireSpec == Init /\ [][RetireNext({FALSE})]_vars

DirectNext ==
    \/ \E r \in Reqs, k \in DirectKeys, sender \in 1..MaxSender :
          PostMessage(r, k, sender, TRUE)
    \/ \E r \in Reqs : MessageRoute(r)
    \/ \E r \in Reqs : MessageConversation(r)
    \/ \E r \in Reqs : Respond(r)

\* Create-message requests with direct chat keys, their handlers interleaved
\* at their awaits.
DirectSpec == Init /\ [][DirectNext]_vars

KeyNext ==
    \/ \E k \in EncodedKeys : PostMessage(1, k, 1, TRUE)
    \/ MessageRoute(1)
    \/ MessageGroup(1)
    \/ MessageConversation(1)
    \/ Respond(1)

\* One create-message request for every chat key built from ids 0..MaxKeyId.
KeySpec == Init /\ [][KeyNext]_vars

MessageNext ==
    \/ RetireNext({FALSE})
    \/ \E id \in 1..MaxReq, isRead \in BOOLEAN : MarkRead(id, isRead)

\* The message store under every operation that writes it: creation, the
\* read flag, and the soft delete of the cleanup task.
MessageSpec == Init /\ [][MessageNext]_vars

\* The same with storage calls of the cleanup tasks that may reject.
RetireFaultSpec == Init /\ [][RetireNext(BOOLEAN)]_vars

\* emails and usernames of registration requests: one already stored and
\* MaxNewUser that are not
RegValues == MaxUser..(MaxUser + MaxNewUser)

RegisterNext ==
    \/ \E r \in Reqs, email \in RegValues, username \in RegValues, valid \in BOOLEAN :
          PostRegister(r, email, username, valid)
    \/ \E r \in Reqs : RegisterEmail(r)
    \/ \E r \in Reqs : RegisterUsername(r)
    \/ \E r \in Reqs : RegisterCreate(r)
    \/ \E r \in Reqs : Respond(r)

\* Registration requests, their handlers interleaved at their awaits.
RegisterSpec == Init /\ [][RegisterNext]_vars

ClientNext ==
    \/ InitSocket
    \/ ReconnectTimer
    \/ \E s \in 1..MaxSocket : SocketOpen(s)
    \/ \E s \in 1..MaxSocket : SocketError(s)
    \/ \E s \in 1..MaxSocket : SocketClose(s)
    \/ CloseSocket

\* The client's socket module driven by the application and the browser.
ClientSpec == Init /\ [][ClientNext]_vars

\* The same, with a pending timeout eventually firing.
ClientFairSpec == ClientSpec /\ WF_vars(ReconnectTimer)

\* connections that authenticate and also push frames of other kinds
FrameNext ==
    \/ WsStep(MaxReauth)
    \/ \E c \in Conns, frame \in OtherFrames : WsOther(c, frame)

FrameSpec == Init /\ [][FrameNext]_vars

\* ------------------------------------------------------------------ claims
\* connections listed under identity u
Holders(u) == Range(MapGet(clients, u))

\* connections listed under u after the step
HoldersAfter(u) == Range(MapGet(clients', u))

\* payloads handed to connection c by the step
NewPayloads(c) == SubSeq(sent'[c], Len(sent[c]) + 1, Len(sent'[c]))

\* the step handles an auth frame of c for identity u
AuthStepOf(c, u) ==
    /\ readyState[c] = "OPEN" /\ readyState'[c] = "OPEN"
    /\ wsUserId'[c] = u
    /\ NewPayloads(c) = <<Payload("auth_success", 0)>>

\* the step handles the close event of c
CloseStepOf(c) == readyState[c] # "CLOSED" /\ readyState'[c] = "CLOSED"

HasPayload(c, data) == \E i \in 1..Len(sent[c]) : sent[c][i] = data

\* C1: after any interleaving of auth frames and close events, the list of
\* every identity is exactly the connections that authenticated as it and
\* have not closed. Stated step by step: an auth adds the connection to the
\* identity it names, a close removes the connection from every identity,
\* and nothing else changes a list.
C1_RegistryExact ==
    [][\A u \in UserIds :
          HoldersAfter(u) =
              (Holders(u) \cup {c \in Conns : AuthStepOf(c, u)})
                  \ {c \in Conns : readyState'[c] = "CLOSED"}]_vars

\* C3: once the close event of a connection has been handled nothing is sent
\* on it any more, and an identity whose only listed connection it was has
\* no registry entry after the close.
C3_ClosedIsGone ==
    [][\A c \in Conns :
          /\ readyState[c] = "CLOSED" => sent'[c] = sent[c]
          /\ CloseStepOf(c) =>
                \A u \in UserIds :
                    Holders(u) = {c} => ~MapHas(clients', u)]_vars

\* C4: every connection is listed under at most one identity, and at most
\* once there.
C4_ListedOnce == \A c \in Conns : Listings(c) <= 1

\* the step is the sendToUser call of the view-status handler of request r
ViewNotifyStep(r) ==
    req[r].kind = "view" /\ req[r].pc = "viewed" /\ req'[r].pc = "done"

\* C2: sendToUser(identity, payload) sends the payload to every connection
\* listed for that identity that is open at the call, and nothing to a
\* connection that is not open or is listed only for another identity.
C2_SendToUserTargets ==
    [][\A r \in Reqs :
          ViewNotifyStep(r) =>
              LET owner == statuses[req[r].found].userId
                  data == Payload("status_viewed", req[r].ent)
              IN  \A c \in Conns :
                      /\ (c \in Holders(owner) /\ readyState[c] = "OPEN")
                            => /\ NewPayloads(c) # <<>>
                               /\ Range(NewPayloads(c)) = {data}
                      /\ (c \notin Holders(owner) \/ readyState[c] # "OPEN")
                            => NewPayloads(c) = <<>>]_vars

\* a view was announced to an open connection of the status owner while a
\* connection of the same owner that had left the open state got nothing
C2_Witness ==
    \E r \in Reqs, c1, c2 \in Conns :
        /\ req[r].kind = "view" /\ req[r].status = 201
        /\ HasPayload(c1, Payload("status_viewed", req[r].ent))
        /\ ~HasPayload(c2, Payload("status_viewed", req[r].ent))
        /\ readyState[c2] = "CLOSING"
        /\ \E u \in UserIds : {c1, c2} \subseteq Holders(u)

\* the step is the direct branch of create-message for a key of two segments
DirectRouteStep(r) ==
    /\ req[r].kind = "message" /\ req[r].pc = "created" /\ req'[r].pc # "created"
    /\ ~StartsWith(req[r].chatId, GroupPrefix)
    /\ Len(Split(req[r].chatId, "_")) = 2

\* C5: for a message stored with a direct key "A_B", every open connection
\* listed for A or for B receives exactly one new_message payload for it,
\* also when A = B, and a participant without connection causes no error.
C5_DirectExactlyOnce ==
    [][\A r \in Reqs :
          DirectRouteStep(r) =>
              LET parts == Split(req[r].chatId, "_")
                  targets == Holders(ParseInt(parts[1])) \cup
                             Holders(ParseInt(parts[2]))
              IN  /\ \A c \in targets :
                         readyState[c] = "OPEN" =>
                             NewPayloads(c) = <<Payload("new_message", req[r].ent)>>
                  /\ req'[r].status # 500]_vars

\* the step is the membership lookup of sendToGroup
GroupLookupStep(r) == req'[r].pc = "gotMembers" /\ req[r].pc # "gotMembers"

\* the step is the forEach of sendToGroup
GroupFanoutStep(r) == req[r].pc = "gotMembers" /\ req'[r].pc # "gotMembers"

\* C6: sendToGroup delivers the payload to exactly the open connections of
\* the identities that are members of the group at the membership lookup of
\* that call.
C6_GroupTargets ==
    [][\A r \in Reqs :
          /\ GroupLookupStep(r) =>
                Range(req'[r].members) =
                    {groupMembers[i].userId :
                        i \in {j \in DOMAIN groupMembers :
                                  groupMembers[j].groupId = req[r].a}}
          /\ GroupFanoutStep(r) =>
                \A c \in Conns :
                    (NewPayloads(c) # <<>>) <=>
                        /\ readyState[c] = "OPEN"
                        /\ \E u \in Range(req[r].members) : c \in Holders(u)]_vars

\* a member added to an existing group received the member_added payload of
\* the fan-out that followed, and an open connection of a non-member did not
C6_Witness ==
    \E r \in Reqs, c1, c2 \in Conns :
        /\ req[r].kind = "member" /\ req[r].status = 201
        /\ HasPayload(c1, Payload("member_added", req[r].ent))
        /\ c1 \in Holders(groupMembers[req[r].ent].userId)
        /\ groupMembers[req[r].ent].isAdmin = FALSE
        /\ readyState[c2] = "OPEN" /\ Listings(c2) > 0
        /\ ~HasPayload(c2, Payload("member_added", req[r].ent))

\* C7: a new_message or new_status payload is sent only for an entity whose
\* creating persistence call has completed: it is in the store before the
\* step that sends it.
C7_WriteThenNotify ==
    [][\A c \in Conns :
          \A i \in 1..Len(NewPayloads(c)) :
              LET p == NewPayloads(c)[i]
              IN  /\ p.type = "new_message" => p.id \in DOMAIN messages
                  /\ p.type = "new_status" => p.id \in DOMAIN statuses]_vars

\* a stored status has been announced to a connection
C7_Witness ==
    \E c \in Conns, id \in DOMAIN statuses :
        HasPayload(c, Payload("new_status", id))

\* C8: the write of a create-message request is acknowledged to the HTTP
\* caller before any delivery of that message is attempted.
C8_AckBeforeDelivery ==
    \A r \in Reqs :
        (/\ req[r].kind = "message"
         /\ req[r].ent # 0
         /\ \E c \in Conns : HasPayload(c, Payload("new_message", req[r].ent)))
            => req[r].status # 0

\* C9: a failure during delivery never changes the outcome of the write
\* request: once the entity is stored, and with the store itself working, the
\* caller gets the success response carrying it and the entity stays stored.
C9_DeliveryNeverFailsWrite ==
    \A r \in Reqs :
        (req[r].kind \in {"message", "status"} /\ req[r].ent # 0
            /\ req[r].pc = "done" /\ ~storageDown)
            => /\ req[r].status = 201
               /\ req[r].body = req[r].ent
               /\ req[r].ent \in DOMAIN (IF req[r].kind = "message"
                                         THEN messages ELSE statuses)

\* the connections a fan-out step of request r addresses
FanoutTargets(r) ==
    IF ViewNotifyStep(r) THEN Holders(statuses[req[r].found].userId)
    ELSE IF GroupFanoutStep(r)
    THEN UNION {Holders(u) : u \in Range(req[r].members)}
    ELSE IF req[r].kind = "status" /\ req[r].pc = "created" /\ req'[r].pc = "done"
    THEN {c \in Conns : Listings(c) > 0}
    ELSE {}

\* C10: within one fan-out, a failing send on one connection does not keep
\* any other open target connection from receiving the payload.
C10_FailureIsolated ==
    [][\A r \in Reqs :
          \A c \in FanoutTargets(r) :
              (readyState[c] = "OPEN" /\ c \notin broken)
                  => NewPayloads(c) # <<>>]_vars

\* the step starts a create-message or create-status request whose entity
\* is not persisted
FailedWriteStep(r) ==
    /\ req[r].pc = "free" /\ req'[r].kind \in {"message", "status"}
    /\ messages' = messages /\ statuses' = statuses

\* C11: when persisting a new message or status fails, or the body fails
\* validation, no payload is sent to any connection, no conversation is
\* created or touched, and the caller receives a failure response; the
\* request takes no further step.
C11_FailedWriteNotRouted ==
    [][\A r \in Reqs :
          /\ FailedWriteStep(r) =>
                /\ req'[r].pc = "done"
                /\ req'[r].status \in {400, 500}
                /\ sent' = sent
                /\ conversations' = conversations
          /\ (req[r].kind \in {"message", "status"} /\ req[r].ent = 0
                 /\ req[r].pc # "free")
                => req'[r] = req[r]]_vars

\* a write was refused with 500 while an open, registered connection was
\* listening, and that connection was sent nothing but its auth reply
C11_Witness ==
    \E r \in Reqs, c \in Conns :
        /\ req[r].kind \in {"message", "status"} /\ req[r].pc = "done"
        /\ req[r].ent = 0 /\ req[r].status = 500
        /\ readyState[c] = "OPEN" /\ Listings(c) > 0
        /\ sent[c] = <<Payload("auth_success", 0)>>

RoutedTypes == {"new_message", "member_added", "member_updated", "new_status",
                "status_viewed"}

\* C12: a connection that has not sent an auth frame is never sent a routed
\* payload (new_message, member_added, member_updated, new_status,
\* status_viewed), broadcasts included.
C12_UntaggedGetsNothing ==
    \A c \in Conns :
        wsUserId[c] = None =>
            \A i \in 1..Len(sent[c]) : sent[c][i].type \notin RoutedTypes

\* a status was broadcast to a registered connection while another open
\* connection had not sent its auth frame
C12_Witness ==
    \E c1, c2 \in Conns :
        /\ \E id \in DOMAIN statuses : HasPayload(c1, Payload("new_status", id))
        /\ readyState[c2] = "OPEN" /\ wsUserId[c2] = None
        /\ sent[c2] = <<>>

\* the chat key is not of group form and does not split into exactly two
\* segments that parse as integers
Malformed(chatId) ==
    /\ ~StartsWith(chatId, GroupPrefix)
    /\ LET parts == Split(chatId, "_")
       IN  ~(/\ Len(parts) = 2
             /\ ParseInt(parts[1]) # NaN
             /\ ParseInt(parts[2]) # NaN)

\* C13: a message created with a malformed chat key is stored, no payload is
\* sent to any connection for it, no conversation is created or updated, and
\* the HTTP caller gets the success response.
C13_MalformedKeySkipped ==
    [][\A r \in Reqs :
          (/\ req[r].kind = "message" /\ req[r].pc \notin {"free", "done"}
           /\ Malformed(req[r].chatId)
           /\ req'[r] # req[r])
             => /\ sent' = sent
                /\ conversations' = conversations
                /\ req[r].ent \in DOMAIN messages'
                /\ req'[r].pc = "done" => req'[r].status = 201]_vars

\* the step is the broadcast of the create-status handler of request r
BroadcastStep(r) ==
    req[r].kind = "status" /\ req[r].pc = "created" /\ req'[r].pc = "done"

\* C14: broadcast(payload) sends the payload exactly once to every open
\* connection of every identity in the registry at the call, whatever the
\* group memberships, and to no connection absent from the registry.
C14_BroadcastExactlyOnce ==
    [][\A r \in Reqs :
          BroadcastStep(r) =>
              \A c \in Conns :
                  NewPayloads(c) =
                      IF Listings(c) > 0 /\ readyState[c] = "OPEN"
                      THEN <<Payload("new_status", req[r].ent)>>
                      ELSE <<>>]_vars

\* C15: in every reachable state no identity of the registry is mapped to an
\* empty connection list.
C15_NoEmptyEntry == \A i \in 1..Len(clients) : clients[i].val # <<>>

\* an identity lost its last listed connection and its entry with it, while
\* another identity is still listed
C15_Witness ==
    \E c \in Conns :
        /\ readyState[c] = "CLOSED" /\ Truthy(wsUserId[c])
        /\ ~MapHas(clients, wsUserId[c])
        /\ Len(clients) > 0

\* the step belongs to a run of the message cleanup task
MessageRunStep == msgScan' # msgScan

\* the time "now minus ten days" of the run the step belongs to
MessageCutoff == IF msgScan.pos = 0 THEN now - TenDays ELSE msgScan.cutoff

\* the step belongs to a run of the status cleanup task
StatusRunStep == statusScan' # statusScan

\* the time "now" of the run the step belongs to
StatusCutoff == IF statusScan.pos = 0 THEN now ELSE statusScan.cutoff

\* C16: one run of the message cleanup at time now leaves a message
\* soft-deleted iff it was soft-deleted already or its timestamp is strictly
\* older than now minus ten days; a message with a timestamp at or after now
\* minus ten days is left unchanged, and no message is removed from the store.
C16_MessageRetirement ==
    [][/\ DOMAIN messages \subseteq DOMAIN messages'
       /\ MessageRunStep =>
             /\ \A id \in DOMAIN messages :
                   \/ messages'[id] = messages[id]
                   \/ /\ messages[id].timestamp < MessageCutoff
                      /\ messages'[id] = [messages[id] EXCEPT !.isDeleted = TRUE]
             /\ msgScan'.pos = 0 =>
                   \A id \in DOMAIN messages' :
                       messages'[id].timestamp < MessageCutoff
                           => messages'[id].isDeleted]_vars

\* a run has retired a message older than ten days and has to pass a message
\* that is exactly ten days old, which is still not deleted after the run's
\* last deletion
C16_Witness ==
    \E i, j \in DOMAIN messages :
        /\ msgScan.pos = i + 1 /\ messages[i].isDeleted
        /\ messages[i].timestamp < msgScan.cutoff
        /\ messages[j].timestamp = msgScan.cutoff /\ ~messages[j].isDeleted

\* C17: one run of the status cleanup at time now removes from the store
\* exactly the statuses whose expiresAt is set and strictly earlier than now;
\* every other status remains and is unchanged.
C17_StatusRetirement ==
    [][StatusRunStep =>
          /\ DOMAIN statuses' \subseteq DOMAIN statuses
          /\ \A id \in DOMAIN statuses :
                IF id \in DOMAIN statuses'
                THEN statuses'[id] = statuses[id]
                ELSE statuses[id].expiresAt # None
                        /\ statuses[id].expiresAt < StatusCutoff
          /\ statusScan'.pos = 0 =>
                \A id \in DOMAIN statuses' :
                    ~(statuses'[id].expiresAt # None
                        /\ statuses'[id].expiresAt < StatusCutoff)]_vars

\* a run has removed an expired status while a status expiring exactly at
\* the run's now is still in the store
C17_Witness ==
    \E i \in 1..(nextStatusId - 1), j \in DOMAIN statuses :
        /\ statusScan.pos = i + 1 /\ i \notin DOMAIN statuses
        /\ statuses[j].expiresAt = statusScan.cutoff

\* C18: within one run of either cleanup task a failure while retiring one
\* entity does not abort the scan: when the run is over, every other entity
\* that meets the retirement rule of the run is retired.
C18_FailureDoesNotAbort ==
    [][/\ (MessageRunStep /\ msgScan'.pos = 0) =>
             \A id \in DOMAIN messages' :
                 id # msgScan'.rejected =>
                     ~MessageExpired(messages'[id], MessageCutoff)
       /\ (StatusRunStep /\ statusScan'.pos = 0) =>
             \A id \in DOMAIN statuses' :
                 id # statusScan'.rejected =>
                     ~StatusExpired(statuses'[id], StatusCutoff)]_vars

\* C19: a status created at time T is returned by the active-statuses query
\* at every time before T + 3 days and is absent from it at every time after
\* T + 3 days; the query never returns a status whose expiresAt is at or
\* before the time of the query.
C19_ActiveWindow ==
    /\ [](/\ \A id \in getActiveStatuses : statuses[id].expiresAt > now
          /\ \A id \in DOMAIN statuses :
                now > statuses[id].createdAt + ThreeDays
                    => id \notin getActiveStatuses)
    /\ [][\A id \in DOMAIN statuses :
             now' < statuses[id].createdAt + ThreeDays
                 => id \in getActiveStatuses']_vars

\* on the last day before its expiry a status is listed, while an older one
\* that is past its expiry and still stored is not
C19_Witness ==
    \E i, j \in DOMAIN statuses :
        /\ now = statuses[i].createdAt + ThreeDays - 1
        /\ i \in getActiveStatuses
        /\ now > statuses[j].createdAt + ThreeDays
        /\ j \notin getActiveStatuses

\* C20: every stored status has expiresAt = createdAt + 3 days, set at
\* creation, and no operation changes createdAt or expiresAt of a stored
\* status afterwards.
C20_ExpirySetOnce ==
    /\ [](\A id \in DOMAIN statuses :
             statuses[id].expiresAt = statuses[id].createdAt + ThreeDays)
    /\ [][\A id \in DOMAIN statuses \cap DOMAIN statuses' :
             /\ statuses'[id].createdAt = statuses[id].createdAt
             /\ statuses'[id].expiresAt = statuses[id].expiresAt]_vars

\* two statuses created on different days are stored, and the clock has
\* moved on since the first was created
C20_Witness ==
    \E i, j \in DOMAIN statuses :
        /\ statuses[i].createdAt < statuses[j].createdAt
        /\ statuses[j].createdAt < now

C22_UnknownIdentityNoOp ==
    [][\A r \in Reqs :
          (ViewNotifyStep(r)
              /\ ~MapHas(clients, statuses[req[r].found].userId))
             => /\ sent' = sent
                /\ clients' = clients
                /\ req'[r].status = 201]_vars

\* a view was recorded and answered while its status owner had no registry
\* entry and a connection of another identity, whose sends throw, was open
C22_Witness ==
    \E r \in Reqs, c \in Conns :
        /\ req[r].kind = "view" /\ req[r].status = 201
        /\ req[r].ent \in DOMAIN statusViews
        /\ ~MapHas(clients, statuses[statusViews[req[r].ent].statusId].userId)
        /\ readyState[c] = "OPEN" /\ Listings(c) > 0 /\ c \in broken
        /\ ~HasPayload(c, Payload("status_viewed", req[r].ent))

\* the step is the chat key decode of the create-message handler
DecodeStep(r) ==
    req[r].kind = "message" /\ req[r].pc = "created" /\ req'[r] # req[r]

\* C23: chat key round trip over ids 0..MaxKeyId: "group_" + g is decoded as
\* group form with id g; a + "_" + b is decoded as direct form with the pair
\* (a, b) in that order, the keys of (a, b) and (b, a) differ when a # b, and
\* no direct key is taken for group form.
C23_KeyRoundTrip ==
    [][\A r \in Reqs :
          DecodeStep(r) =>
              /\ \A g \in KeyIds :
                    req[r].chatId = EncodeGroup(g) =>
                        req'[r].pc = "gotGroup" /\ req'[r].a = g
              /\ \A a, b \in KeyIds :
                    req[r].chatId = EncodeDirect(a, b) =>
                        /\ req'[r].pc = "gotConv"
                        /\ req'[r].a = a /\ req'[r].b = b
                        /\ ~StartsWith(req[r].chatId, GroupPrefix)
                        /\ a # b => EncodeDirect(b, a) # req[r].chatId]_vars

\* a direct key of a two-digit id and a different one-digit id was decoded
C23_Witness ==
    \E r \in Reqs :
        /\ req[r].pc = "gotConv"
        /\ req[r].a > 9 /\ req[r].b < req[r].a /\ req[r].b > 0
        /\ req[r].chatId = EncodeDirect(req[r].a, req[r].b)

\* the unordered participant pair of a conversation record
Pair(cv) == {cv.user1Id, cv.user2Id}

\* C24: after any interleaving of create-message requests with direct chat
\* keys the store holds at most one conversation record per unordered
\* participant pair.
C24_OneConversationPerPair ==
    \A i, j \in DOMAIN conversations :
        i # j => Pair(conversations[i]) # Pair(conversations[j])

\* C25: after any interleaving of create-group and add-member requests a
\* group has at most one membership record per user.
C25_OneMembershipPerUser ==
    \A i, j \in DOMAIN groupMembers :
        i # j => \/ groupMembers[i].groupId # groupMembers[j].groupId
                 \/ groupMembers[i].userId # groupMembers[j].userId

\* C28: on every connection auth_success is sent before any routed payload.
C28_AuthSuccessFirst ==
    \A c \in Conns :
        \A i \in 1..Len(sent[c]) :
            sent[c][i].type \in RoutedTypes =>
                \E j \in 1..(i - 1) : sent[c][j].type = "auth_success"

\* a connection was sent auth_success and a routed payload after it
C28_Witness ==
    \E c \in Conns :
        /\ Len(sent[c]) >= 2
        /\ sent[c][1].type = "auth_success"
        /\ sent[c][2].type \in RoutedTypes

\* C29: a pushed frame whose type is not "auth", or that is not valid JSON,
\* leaves the registry and the store unchanged and sends no payload to any
\* connection.
OtherFrameStep ==
    \E c \in Conns : lastFrame'[c] # lastFrame[c] /\ lastFrame'[c] \in OtherFrames

C30_UniqueEmailAndUsername ==
    \A i, j \in DOMAIN users :
        i # j => /\ users[i].email # users[j].email
                 /\ users[i].username # users[j].username

\* C26: after closeSocket() returns, no new WebSocket is created and no
\* auth message is sent until initSocket is called again, also when the
\* close event of the socket just closed is delivered afterwards.
C26_ClosedStaysClosed ==
    [][cStopped /\ cStopped' =>
          /\ Len(cState') = Len(cState)
          /\ cAuthSent' = cAuthSent]_vars

\* the module's socket n, the last one created, has closed without
\* closeSocket having been called
Lost(n) ==
    /\ ~cStopped
    /\ Len(cState) = n
    /\ cSocket = n
    /\ cState[n] = "CLOSED"

\* C27: whenever the current socket closes without closeSocket having been
\* called, a new connection attempt is eventually made, after every failed
\* attempt, until a connection opens.
C27_ReconnectsUntilOpen ==
    \A n \in 1..(MaxSocket - 1) :
        Lost(n) ~> (Len(cState) > n \/ cStopped)
====
